---- MODULE Spec2Model ----
(***************************************************************************)
(* A model of mdbook-latex's renderer (src/src/main.rs): main(),           *)
(* traverse_markdown(), parse_image_tag() and output_markdown().           *)
(*                                                                         *)
(* Text is a sequence of atoms.  In a path an atom is one of the two       *)
(* characters "." and "/" or a run of other characters ("img", "png");     *)
(* in the template an atom is an opening macro ("\\title{"), the closing   *)
(* brace "}", the marker text or a run of other text.  String searches     *)
(* and replacements of the source are searches and replacements of         *)
(* subsequences, so a match that only exists after two texts were joined   *)
(* is found here as it is found there.                                     *)
(***************************************************************************)
EXTENDS Integers, Sequences, FiniteSets, TLC

(* ------------------------------ bounds -------------------------------- *)

\* Longest raw image reference, in atoms.
MaxRefLen == 4
\* Longest book, in items.
MaxItems == 2
\* Longest title, in atoms.
MaxValLen == 2
\* Largest exit code the external compiler returns.
MaxExitCode == 2

(* ------------------------- strings (std::str) -------------------------- *)

StartsWith(s, p) ==
  Len(p) <= Len(s) /\ SubSeq(s, 1, Len(p)) = p

\* str::replace(from, to): every non-overlapping match, left to right; the
\* replacement text is not searched again.
RECURSIVE Replace(_, _, _)
Replace(s, from, to) ==
  IF Len(s) < Len(from) THEN s
  ELSE IF StartsWith(s, from)
       THEN to \o Replace(SubSeq(s, Len(from) + 1, Len(s)), from, to)
  ELSE <<Head(s)>> \o Replace(Tail(s), from, to)

\* str::find(pat): the offset of the first match (0-based), or -1 for None.
RECURSIVE FindFrom(_, _, _)
FindFrom(s, pat, k) ==
  IF k + Len(pat) > Len(s) THEN 0 - 1
  ELSE IF SubSeq(s, k + 1, k + Len(pat)) = pat THEN k
  ELSE FindFrom(s, pat, k + 1)

Find(s, pat) == FindFrom(s, pat, 0)

\* String::insert_str(pos, text).
InsertStr(s, pos, text) ==
  SubSeq(s, 1, pos) \o text \o SubSeq(s, pos + 1, Len(s))

\* [String]::join(sep).
RECURSIVE JoinStrings(_, _)
JoinStrings(list, sep) ==
  IF list = <<>> THEN <<>>
  ELSE IF Len(list) = 1 THEN list[1]
  ELSE list[1] \o sep \o JoinStrings(Tail(list), sep)

(* -------------------------- paths (std::path) -------------------------- *)

IsAbsolute(p) == Len(p) > 0 /\ p[1] = "/"

\* Path::join: an absolute argument replaces the base; otherwise it is
\* appended, after a separator unless the base is empty or ends with one.
Join(base, p) ==
  IF IsAbsolute(p) THEN p
  ELSE IF base = <<>> \/ base[Len(base)] = "/" THEN base \o p
  ELSE base \o <<"/">> \o p

\* The components of a path: its segments between separators, without the
\* empty ones and without "." (Path::components keeps "." only in front).
RECURSIVE Segments(_, _)
Segments(p, cur) ==
  IF p = <<>> THEN (IF cur = <<>> THEN <<>> ELSE <<cur>>)
  ELSE IF Head(p) = "/"
       THEN (IF cur = <<>> THEN <<>> ELSE <<cur>>) \o Segments(Tail(p), <<>>)
  ELSE Segments(Tail(p), Append(cur, Head(p)))

Components(p) ==
  LET segs == Segments(p, <<>>)
      keep(i) == segs[i] # <<".">> \/ (i = 1 /\ ~IsAbsolute(p))
      RECURSIVE Pick(_)
      Pick(i) == IF i > Len(segs) THEN <<>>
                 ELSE (IF keep(i) THEN <<segs[i]>> ELSE <<>>) \o Pick(i + 1)
  IN Pick(1)

\* Path::parent: None for the empty path and for a path that is only a root.
HasParent(p) == Components(p) # <<>>

Parent(p) ==
  LET c == Components(p)
  IN [abs |-> IsAbsolute(p), comps |-> SubSeq(c, 1, Len(c) - 1)]

(* ------------------------ the render context --------------------------- *)

\* ctx.root, ctx.config.book.src and ctx.destination of the run.
BookRoot == <<"/", "book">>
BookSrc == <<"src">>
Destination == <<"/", "book", "/", "out">>

(* ------------------------- markdown events ----------------------------- *)

\* pulldown_cmark::Event, as far as the renderer looks at it: the variant,
\* the tag of a Start or End, and the tag's link type, path and title.
TextEvent(t) ==
  [ev |-> "Text", tag |-> "None", link_type |-> "None",
   path |-> <<>>, title |-> "", text |-> t]

TagEvent(ev, tag, link_type, path, title) ==
  [ev |-> ev, tag |-> tag, link_type |-> link_type,
   path |-> path, title |-> title, text |-> ""]

IsImageEvent(e) == e.ev \in {"Start", "End"} /\ e.tag = "Image"

(* --------------------------- parse_image_tag --------------------------- *)

PathStr(path) == Replace(path, <<".", "/">>, <<>>)

Source == Join(BookRoot, BookSrc)

RelPath(chapter_path, path) == Join(chapter_path, PathStr(path))

SourceImage(chapter_path, path) == Join(Source, RelPath(chapter_path, path))

ImagePath(chapter_path, path) == Join(<<"images">>, RelPath(chapter_path, path))

TargetImage(chapter_path, path) ==
  Join(Destination, ImagePath(chapter_path, path))

\* The tag parse_image_tag returns.
ParseImageTag(link_type, path, title, chapter_path) ==
  [tag |-> "Image", link_type |-> link_type,
   path |-> ImagePath(chapter_path, path), title |-> title]

(* -------------------------- traverse_markdown -------------------------- *)

\* The closure given to parser.map.
MapEventAlsoLinks(event, chapter_path) ==
  IF event.ev \in {"Start", "End"} /\ event.tag \in {"Image", "Link"}
  THEN LET t == ParseImageTag(event.link_type, event.path, event.title,
                              chapter_path)
       IN [ev |-> event.ev, tag |-> event.tag, link_type |-> t.link_type,
           path |-> t.path, title |-> t.title, text |-> event.text]
  ELSE event

MapEvent(event, chapter_path) ==
  IF event.ev = "Start" /\ event.tag = "Image"
  THEN LET t == ParseImageTag(event.link_type, event.path, event.title,
                              chapter_path)
       IN [ev |-> "Start", tag |-> t.tag, link_type |-> t.link_type,
           path |-> t.path, title |-> t.title, text |-> event.text]
  ELSE IF event.ev = "End" /\ event.tag = "Image"
  THEN LET t == ParseImageTag(event.link_type, event.path, event.title,
                              chapter_path)
       IN [ev |-> "End", tag |-> t.tag, link_type |-> t.link_type,
           path |-> t.path, title |-> t.title, text |-> event.text]
  ELSE event

\* cmark(): the markdown text of one event.  A link or an image is written
\* as its opening bracket at Start and its destination and title at End.
EventText(e) ==
  IF e.ev = "Text" THEN <<e.text>>
  ELSE IF e.ev = "Start"
       THEN (IF e.tag = "Image" THEN <<"![">> ELSE <<"[">>)
  ELSE <<"](">> \o e.path \o <<" \"", e.title, "\")">>

RECURSIVE Cmark(_)
Cmark(events) ==
  IF events = <<>> THEN <<>>
  ELSE EventText(Head(events)) \o Cmark(Tail(events))

\* cmark2tex::markdown_to_tex, a converter outside this repository: the
\* model only needs its output to differ from its input.
MarkdownToTex(content) == <<"\\begin{tex}">> \o content \o <<"\\end{tex}">>

(* ------------------------------ the book ------------------------------- *)

\* BookItem: a chapter (name, content, path) or a separator.  A chapter's
\* content is held as the events Parser::new_ext reads from it; has_path
\* is FALSE for a draft chapter, whose path is None.
Chapter(name, dir, events) ==
  [kind |-> "Chapter", name |-> name, has_path |-> TRUE, dir |-> dir,
   events |-> events]

DraftChapter(name) ==
  [kind |-> "Chapter", name |-> name, has_path |-> FALSE, dir |-> <<>>,
   events |-> <<>>]

Separator ==
  [kind |-> "Separator", name |-> "", has_path |-> FALSE, dir |-> <<>>,
   events |-> <<>>]

\* ![alt](ref "title") as the parser reports it.
Image(link_type, ref, title) ==
  << TagEvent("Start", "Image", link_type, ref, title),
     TextEvent("alt"),
     TagEvent("End", "Image", link_type, ref, title) >>

Link(url) ==
  << TagEvent("Start", "Link", "Inline", url, ""),
     TextEvent("here"),
     TagEvent("End", "Link", "Inline", url, "") >>

PicRef == <<".", "/", "img", "/", "pic", ".", "png">>

ChapterIntro ==
  Chapter("Intro", <<"chapter1">>,
          <<TextEvent("See")>> \o Image("Inline", PicRef, "A pic"))

ChapterUsage ==
  Chapter("Usage", <<>>, Link(<<".", "/", "other", ".", "md">>))

ChapterIntroduction ==
  Chapter("Introduction", <<"chapter1">>,
          Image("Reference", <<"logo">>, "") \o <<TextEvent("end")>>)

\* An image whose reference is the root directory.
ChapterCover ==
  Chapter("Cover", <<>>, Image("Inline", <<"/">>, ""))

ItemKinds ==
  {Separator, ChapterIntro, ChapterUsage, ChapterIntroduction, ChapterCover,
   DraftChapter("Draft")}

SeqsUpTo(S, n) == UNION {[1..k -> S] : k \in 0..n}

Books == SeqsUpTo(ItemKinds, MaxItems)

IgnoreLists ==
  {{}, {"Intro"}, {"Usage", "Draft"}, {"Intro", "Usage", "Draft", "Cover"}}

(* ---------------------------- the templates ---------------------------- *)

TitlePlaceholder == <<"\\title{", "}">>
AuthorPlaceholder == <<"\\author{", "}">>
DatePlaceholder == <<"\\date{", "}">>
\* let begin = "mdbook-tectonic begin";
Begin == <<"mdbook-tectonic begin">>

\* fn today()
Today == <<"\\today">>

\* The built-in template.tex: the three placeholders in the preamble and
\* the marker comment in the document body.
DefaultTemplate ==
  <<"\\documentclass{book}">> \o TitlePlaceholder \o AuthorPlaceholder
  \o DatePlaceholder \o <<"\\begin{document}", "%% ">> \o Begin
  \o <<"%% end", "\\end{document}">>

\* Custom templates: the marker before the placeholders; the marker text
\* twice; no marker at all.
MarkerFirstTemplate ==
  <<"%% ">> \o Begin \o <<"\\maketitle">> \o DatePlaceholder
  \o TitlePlaceholder \o AuthorPlaceholder

TwoMarkerTemplate ==
  TitlePlaceholder \o AuthorPlaceholder \o DatePlaceholder
  \o <<"%% ">> \o Begin \o <<"body", "%% ">> \o Begin

NoMarkerTemplate ==
  TitlePlaceholder \o AuthorPlaceholder \o DatePlaceholder \o <<"body">>

\* cfg.custom_template and the text the run gets for it.
TemplateChoice(custom, text) == [custom |-> custom, text |-> text]

Some(v) == [some |-> TRUE, val |-> v]
None == [some |-> FALSE, val |-> <<>>]

(* ------------------------ the external compiler ------------------------ *)

\* ExitStatus: code() is None when a signal ended the process.
ExitStatuses ==
  {[signalled |-> FALSE, code |-> c] : c \in 0..MaxExitCode}
  \cup {[signalled |-> TRUE, code |-> 0]}

\* if child.wait()?.code().unwrap() != 0 { panic!(..) }
WaitOutcomeAnyCode(status) ==
  IF status.signalled THEN "panic" ELSE "ok"

WaitOutcome(status) ==
  IF status.signalled THEN "panic"
  ELSE IF status.code # 0 THEN "panic"
  ELSE "ok"

\* The capacity of std::io::BufWriter::new (8192 bytes), in atoms: a text
\* at least this long is written straight through, a shorter one is kept
\* in the buffer until the writer is dropped.
BufCapacity == 30

(* ------------------------------- state --------------------------------- *)

VARIABLES
  ctx,        \* RenderContext: book, title, authors, output.latex.date
  cfg,        \* LatexConfig
  tpl,        \* the template text cfg.custom_template (or template.tex) holds
  pc,         \* main's position
  outcome,    \* "running", or how main ended: "ok", "err" (Err), "panic"
  template,   \* let mut template
  latex,      \* let mut latex
  content,    \* let mut content
  item,       \* position of `for item in ctx.book.iter()`
  ev_idx,     \* position of the parser in the chapter being traversed
  rewritten,  \* the events parser.map has yielded for that chapter
  traversed,  \* the items traverse_markdown was called for
  fs,         \* the file system: directories made, files copied and written
  child       \* the tectonic process

vars ==
  <<ctx, cfg, tpl, pc, outcome, template, latex, content, item, ev_idx,
    rewritten, traversed, fs, child>>

Flags == [markdown : BOOLEAN, latex : BOOLEAN, pdf : BOOLEAN]

\* #[serde(default = "today")] pub date
DateOrDefault(date) == IF date.some THEN date.val ELSE Today

Absent == [state |-> "absent", data |-> <<>>]

InitWith(book, title, authors, date, ignores, flags, choice) ==
  /\ ctx = [book |-> book, title |-> title, authors |-> authors,
            date |-> date]
  /\ cfg = [ignores |-> ignores, latex |-> flags.latex, pdf |-> flags.pdf,
            markdown |-> flags.markdown, custom_template |-> choice.custom,
            date |-> DateOrDefault(date)]
  /\ tpl = choice.text
  /\ pc = "load"
  /\ outcome = "running"
  /\ template = <<>>
  /\ latex = <<>>
  /\ content = <<>>
  /\ item = 1
  /\ ev_idx = 1
  /\ rewritten = <<>>
  /\ traversed = <<>>
  /\ fs = [dirs |-> {}, copies |-> <<>>, md |-> Absent, tex |-> Absent,
           failed |-> FALSE]
  /\ child = [located |-> "unknown", spawned |-> FALSE, stdin |-> <<>>,
              stdin_closed |-> FALSE, waited |-> FALSE,
              status |-> [signalled |-> FALSE, code |-> 0]]

\* Books of every shape, one title.
Init ==
  \E book \in Books, ignores \in IgnoreLists, flags \in Flags,
     choice \in {TemplateChoice(FALSE, DefaultTemplate),
                 TemplateChoice(TRUE, MarkerFirstTemplate),
                 TemplateChoice(TRUE, NoMarkerTemplate)} :
    InitWith(book, Some(<<"My Book">>), << <<"Ann">>, <<"Bob">> >>, None,
             ignores, flags, choice)

(* ------------------------------- main ---------------------------------- *)

Running == outcome = "running"

Title == IF ctx.title.some THEN ctx.title.val ELSE <<"<Unknown Title>">>

Authors == JoinStrings(ctx.authors, <<" \\and ">>)

\* fs::read_to_string(custom_template_path)? fails.
LoadCustomFail ==
  /\ Running /\ pc = "load"
  /\ cfg.custom_template
  /\ outcome' = "err"
  /\ UNCHANGED <<ctx, cfg, tpl, pc, template, latex, content, item, ev_idx,
                 rewritten, traversed, fs, child>>

LoadTemplate ==
  /\ Running /\ pc = "load"
  /\ template' = tpl
  /\ pc' = "subst"
  /\ UNCHANGED <<ctx, cfg, tpl, outcome, latex, content, item, ev_idx,
                 rewritten, traversed, fs, child>>

\* The three template.replace calls.
Substituted(t) ==
  LET t1 == Replace(t, TitlePlaceholder, <<"\\title{">> \o Title \o <<"}">>)
      t2 == Replace(t1, AuthorPlaceholder,
                    <<"\\author{">> \o Authors \o <<"}">>)
  IN Replace(t2, DatePlaceholder, <<"\\date{">> \o cfg.date \o <<"}">>)

SubstituteTemplate ==
  /\ Running /\ pc = "subst"
  /\ template' = Substituted(template)
  /\ pc' = "iter"
  /\ UNCHANGED <<ctx, cfg, tpl, outcome, latex, content, item, ev_idx,
                 rewritten, traversed, fs, child>>

\* cfg.ignores.contains(&ch.name)
IsIgnoredNever(name) == FALSE

IsIgnored(name) == name \in cfg.ignores

CurItem == ctx.book[item]

SkipItem ==
  /\ Running /\ pc = "iter" /\ item <= Len(ctx.book)
  /\ CurItem.kind # "Chapter"
  /\ item' = item + 1
  /\ UNCHANGED <<ctx, cfg, tpl, pc, outcome, template, latex, content,
                 ev_idx, rewritten, traversed, fs, child>>

SkipIgnored ==
  /\ Running /\ pc = "iter" /\ item <= Len(ctx.book)
  /\ CurItem.kind = "Chapter"
  /\ IsIgnored(CurItem.name)
  /\ item' = item + 1
  /\ UNCHANGED <<ctx, cfg, tpl, pc, outcome, template, latex, content,
                 ev_idx, rewritten, traversed, fs, child>>

\* ch.path.as_ref().unwrap() on a chapter without a path.
NoPathPanic ==
  /\ Running /\ pc = "iter" /\ item <= Len(ctx.book)
  /\ CurItem.kind = "Chapter"
  /\ ~IsIgnored(CurItem.name)
  /\ ~CurItem.has_path
  /\ outcome' = "panic"
  /\ UNCHANGED <<ctx, cfg, tpl, pc, template, latex, content, item, ev_idx,
                 rewritten, traversed, fs, child>>

BeginChapter ==
  /\ Running /\ pc = "iter" /\ item <= Len(ctx.book)
  /\ CurItem.kind = "Chapter"
  /\ ~IsIgnored(CurItem.name)
  /\ CurItem.has_path
  /\ pc' = "traverse"
  /\ ev_idx' = 1
  /\ rewritten' = <<>>
  /\ traversed' = Append(traversed, item)
  /\ UNCHANGED <<ctx, cfg, tpl, outcome, template, latex, content, item,
                 fs, child>>

\* .expect(..) on the result of create_dir_all and of copy.
ExpectOutcomeIgnoresFailure(result) == "running"

ExpectOutcome(result) == IF result = "ok" THEN "running" ELSE "panic"

\* The file system after parse_image_tag's create_dir_all and copy, which
\* end as `result` says.
Relocated(f, chapter_path, path, result) ==
  LET target == TargetImage(chapter_path, path)
  IN [f EXCEPT
        !.dirs = IF result = "mkdir_failed" THEN @
                 ELSE @ \cup {[dir |-> Parent(target), item |-> item]},
        !.copies = IF result = "ok"
                   THEN Append(@, [src |-> SourceImage(chapter_path, path),
                                   dst |-> target, item |-> item,
                                   ev |-> ev_idx])
                   ELSE @,
        !.failed = @ \/ result # "ok"]

\* One event pulled through parser.map by cmark: an event that is no image.
TraversePlain ==
  /\ Running /\ pc = "traverse" /\ ev_idx <= Len(CurItem.events)
  /\ ~IsImageEvent(CurItem.events[ev_idx])
  /\ rewritten' = Append(rewritten, MapEvent(CurItem.events[ev_idx], CurItem.dir))
  /\ ev_idx' = ev_idx + 1
  /\ UNCHANGED <<ctx, cfg, tpl, pc, outcome, template, latex, content, item,
                 traversed, fs, child>>

\* targetimage.parent().unwrap() when the target has no parent.
TraverseNoParent ==
  /\ Running /\ pc = "traverse" /\ ev_idx <= Len(CurItem.events)
  /\ IsImageEvent(CurItem.events[ev_idx])
  /\ ~HasParent(TargetImage(CurItem.dir, CurItem.events[ev_idx].path))
  /\ outcome' = "panic"
  /\ UNCHANGED <<ctx, cfg, tpl, pc, template, latex, content, item, ev_idx,
                 rewritten, traversed, fs, child>>

\* An image event: parse_image_tag relocates the file and returns the tag.
TraverseImage ==
  /\ Running /\ pc = "traverse" /\ ev_idx <= Len(CurItem.events)
  /\ IsImageEvent(CurItem.events[ev_idx])
  /\ HasParent(TargetImage(CurItem.dir, CurItem.events[ev_idx].path))
  /\ \E result \in {"ok", "mkdir_failed", "copy_failed"} :
       /\ fs' = Relocated(fs, CurItem.dir, CurItem.events[ev_idx].path, result)
       /\ outcome' = ExpectOutcome(result)
       /\ IF outcome' = "running"
          THEN /\ rewritten' = Append(rewritten,
                                 MapEvent(CurItem.events[ev_idx], CurItem.dir))
               /\ ev_idx' = ev_idx + 1
          ELSE UNCHANGED <<rewritten, ev_idx>>
  /\ UNCHANGED <<ctx, cfg, tpl, pc, template, latex, content, item,
                 traversed, child>>

\* The parser is exhausted: traverse_markdown returns new_content and main
\* pushes it onto content.
PushedTwice(body, new_content) == body \o new_content \o new_content

Pushed(body, new_content) == body \o new_content

EndChapter ==
  /\ Running /\ pc = "traverse" /\ ev_idx > Len(CurItem.events)
  /\ content' = Pushed(content, Cmark(rewritten))
  /\ item' = item + 1
  /\ pc' = "iter"
  /\ UNCHANGED <<ctx, cfg, tpl, outcome, template, latex, ev_idx, rewritten,
                 traversed, fs, child>>

LoopDone ==
  /\ Running /\ pc = "iter" /\ item > Len(ctx.book)
  /\ pc' = "markdown"
  /\ UNCHANGED <<ctx, cfg, tpl, outcome, template, latex, content, item,
                 ev_idx, rewritten, traversed, fs, child>>

(* --------------------------- output_markdown --------------------------- *)

OutputResults == {"ok", "dir_failed", "open_failed", "write_failed"}

\* The file after output_markdown(.., data, ..) ends as `result` says:
\* opening creates or truncates it, write_all fills it.  What a failed
\* write_all left in the file is not kept.
Output(file, data, result) ==
  IF result = "ok" THEN [state |-> "written", data |-> data]
  ELSE IF result = "write_failed" THEN [state |-> "partial", data |-> <<>>]
  ELSE file

\* The `?` after output_markdown.
Try(result) == IF result = "ok" THEN "running" ELSE "err"

WriteMarkdown ==
  /\ Running /\ pc = "markdown"
  /\ cfg.markdown
  /\ \E result \in OutputResults :
       /\ fs' = [fs EXCEPT !.md = Output(@, content, result)]
       /\ outcome' = Try(result)
       /\ pc' = IF result = "ok" THEN "convert" ELSE pc
  /\ UNCHANGED <<ctx, cfg, tpl, template, latex, content, item, ev_idx,
                 rewritten, traversed, child>>

SkipMarkdown ==
  /\ Running /\ pc = "markdown"
  /\ ~cfg.markdown
  /\ pc' = "convert"
  /\ UNCHANGED <<ctx, cfg, tpl, outcome, template, latex, content, item,
                 ev_idx, rewritten, traversed, fs, child>>

\* Neither cfg.latex nor cfg.pdf: main returns Ok(()).
NoLatex ==
  /\ Running /\ pc = "convert"
  /\ ~(cfg.latex \/ cfg.pdf)
  /\ pc' = "done"
  /\ outcome' = "ok"
  /\ UNCHANGED <<ctx, cfg, tpl, template, latex, content, item, ev_idx,
                 rewritten, traversed, fs, child>>

\* markdown_to_tex(content)? fails.
ConvertFail ==
  /\ Running /\ pc = "convert"
  /\ cfg.latex \/ cfg.pdf
  /\ outcome' = "err"
  /\ UNCHANGED <<ctx, cfg, tpl, pc, template, latex, content, item, ev_idx,
                 rewritten, traversed, fs, child>>

\* template.find(&begin).unwrap() on a template without the marker.
NoMarkerPanic ==
  /\ Running /\ pc = "convert"
  /\ cfg.latex \/ cfg.pdf
  /\ Find(template, Begin) < 0
  /\ latex' = latex \o MarkdownToTex(content)
  /\ outcome' = "panic"
  /\ UNCHANGED <<ctx, cfg, tpl, pc, template, content, item, ev_idx,
                 rewritten, traversed, fs, child>>

\* let pos = template.find(&begin).unwrap() + begin.len();
\* template.insert_str(pos, &latex);
Inserted(t, text) == InsertStr(t, Find(t, Begin) + Len(Begin), text)

InsertLatex ==
  /\ Running /\ pc = "convert"
  /\ cfg.latex \/ cfg.pdf
  /\ Find(template, Begin) >= 0
  /\ latex' = latex \o MarkdownToTex(content)
  /\ template' = Inserted(template, latex')
  /\ pc' = "latex"
  /\ UNCHANGED <<ctx, cfg, tpl, outcome, content, item, ev_idx, rewritten,
                 traversed, fs, child>>

\* Where main goes after the LaTeX file: to the compiler, or to Ok(()).
AfterLatex(p, o) ==
  /\ p = IF cfg.pdf THEN "which" ELSE "done"
  /\ o = IF cfg.pdf THEN "running" ELSE "ok"

WriteLatex ==
  /\ Running /\ pc = "latex"
  /\ cfg.latex
  /\ \E result \in OutputResults :
       /\ fs' = [fs EXCEPT !.tex = Output(@, template, result)]
       /\ IF result = "ok" THEN AfterLatex(pc', outcome')
          ELSE pc' = pc /\ outcome' = "err"
  /\ UNCHANGED <<ctx, cfg, tpl, template, latex, content, item, ev_idx,
                 rewritten, traversed, child>>

SkipLatex ==
  /\ Running /\ pc = "latex"
  /\ ~cfg.latex
  /\ AfterLatex(pc', outcome')
  /\ UNCHANGED <<ctx, cfg, tpl, template, latex, content, item, ev_idx,
                 rewritten, traversed, fs, child>>

(* ------------------------------ tectonic ------------------------------- *)

\* which::which("tectonic")?
Which ==
  /\ Running /\ pc = "which"
  /\ \E found \in BOOLEAN :
       /\ child' = [child EXCEPT !.located = IF found THEN "yes" ELSE "no"]
       /\ pc' = IF found THEN "spawn" ELSE pc
       /\ outcome' = IF found THEN "running" ELSE "err"
  /\ UNCHANGED <<ctx, cfg, tpl, template, latex, content, item, ev_idx,
                 rewritten, traversed, fs>>

\* Command::new(tectonic)...spawn()?  (current_dir()? fails the same way.)
Spawn ==
  /\ Running /\ pc = "spawn"
  /\ \E ok \in BOOLEAN :
       /\ child' = [child EXCEPT !.spawned = ok]
       /\ pc' = IF ok THEN "write" ELSE pc
       /\ outcome' = IF ok THEN "running" ELSE "err"
  /\ UNCHANGED <<ctx, cfg, tpl, template, latex, content, item, ev_idx,
                 rewritten, traversed, fs>>

\* How much of a text of len atoms the pipe may take before it refuses the
\* rest: nothing, half of it, all but the last atom, all of it.
Taken(len) == {0, len \div 2, len} \cup {n \in {len - 1} : n >= 0}

\* tectonic_writer.write(template.as_bytes())? with a text shorter than the
\* buffer: write copies it into the buffer and returns Ok; the text goes to
\* the pipe when the block ends and the writer is dropped, and drop discards
\* the error of a write the pipe refuses, after n atoms.
WriteBuffered ==
  /\ Running /\ pc = "write"
  /\ Len(template) < BufCapacity
  /\ \E n \in Taken(Len(template)) :
       child' = [child EXCEPT !.stdin = SubSeq(template, 1, n)]
  /\ pc' = "wait"
  /\ UNCHANGED <<ctx, cfg, tpl, outcome, template, latex, content, item,
                 ev_idx, rewritten, traversed, fs>>

\* The same call with a text that does not fit the buffer: one write on the
\* pipe, which takes n atoms and returns Ok(n); the count is dropped.
WriteThrough ==
  /\ Running /\ pc = "write"
  /\ Len(template) >= BufCapacity
  /\ \E n \in Taken(Len(template)) :
       child' = [child EXCEPT !.stdin = SubSeq(template, 1, n)]
  /\ pc' = "wait"
  /\ UNCHANGED <<ctx, cfg, tpl, outcome, template, latex, content, item,
                 ev_idx, rewritten, traversed, fs>>

\* ... or the pipe returns Err, which `?` returns from main.
WriteThroughErr ==
  /\ Running /\ pc = "write"
  /\ Len(template) >= BufCapacity
  /\ outcome' = "err"
  /\ UNCHANGED <<ctx, cfg, tpl, pc, template, latex, content, item, ev_idx,
                 rewritten, traversed, fs, child>>

\* child.wait()?: wait closes the child's stdin, then waits.
WaitErr ==
  /\ Running /\ pc = "wait"
  /\ child' = [child EXCEPT !.stdin_closed = TRUE]
  /\ outcome' = "err"
  /\ UNCHANGED <<ctx, cfg, tpl, pc, template, latex, content, item, ev_idx,
                 rewritten, traversed, fs>>

Wait ==
  /\ Running /\ pc = "wait"
  /\ \E status \in ExitStatuses :
       /\ child' = [child EXCEPT !.stdin_closed = TRUE, !.waited = TRUE,
                                 !.status = status]
       /\ outcome' = WaitOutcome(status)
       /\ pc' = IF outcome' = "ok" THEN "done" ELSE pc
  /\ UNCHANGED <<ctx, cfg, tpl, template, latex, content, item, ev_idx,
                 rewritten, traversed, fs>>

\* Every raw reference, in a chapter of every directory.
PathAtoms == {".", "/", "a"}

ChapterDirs == {<<>>, <<"chapter1">>, <<"part", "/", "ch">>}

InitPath ==
  \E ref \in SeqsUpTo(PathAtoms, MaxRefLen), dir \in ChapterDirs,
     last \in {FALSE, TRUE}, flags \in Flags,
     choice \in {TemplateChoice(FALSE, DefaultTemplate),
                 TemplateChoice(TRUE, NoMarkerTemplate)} :
    InitWith(<<Separator, ChapterUsage,
               IF last THEN DraftChapter("Draft")
               ELSE Chapter("Figures", dir, Image("Inline", ref, "Fig"))>>,
             Some(<<"My Book">>), << <<"Ann">> >>, None, {"Usage"}, flags,
             choice)

\* Every title, author list, date and template, one book.
ValueAtoms == {"x", "\\author{", "}", "mdbook-tectonic begin"}

AuthorLists ==
  { <<>>, << <<"Ann">> >>, << <<"Ann">>, <<"Bob">> >>,
    << DatePlaceholder >>, << Begin >> }

Dates == {None, Some(<<"2024">>), Some(Begin)}

Titles == {None} \cup {Some(t) : t \in SeqsUpTo(ValueAtoms, MaxValLen)}

Templates ==
  {TemplateChoice(FALSE, DefaultTemplate),
   TemplateChoice(TRUE, MarkerFirstTemplate),
   TemplateChoice(TRUE, TwoMarkerTemplate),
   TemplateChoice(TRUE, NoMarkerTemplate)}

InitTemplate ==
  \E title \in Titles, authors \in AuthorLists, date \in Dates,
     choice \in Templates, flags \in Flags,
     first \in {ChapterCover, DraftChapter("Draft"), Separator} :
    InitWith(<<first, ChapterUsage, ChapterIntroduction>>, title, authors,
             date, {"Usage"}, flags, choice)

Next ==
  \/ LoadCustomFail \/ LoadTemplate \/ SubstituteTemplate
  \/ SkipItem \/ SkipIgnored \/ NoPathPanic \/ BeginChapter
  \/ TraversePlain \/ TraverseNoParent \/ TraverseImage \/ EndChapter
  \/ LoopDone
  \/ WriteMarkdown \/ SkipMarkdown
  \/ NoLatex \/ ConvertFail \/ NoMarkerPanic \/ InsertLatex
  \/ WriteLatex \/ SkipLatex
  \/ Which \/ Spawn \/ WriteBuffered \/ WriteThrough \/ WriteThroughErr
  \/ WaitErr \/ Wait

Spec == Init /\ [][Next]_vars

SpecPath == InitPath /\ [][Next]_vars

SpecTemplate == InitTemplate /\ [][Next]_vars

(* ------------------------------ the claims ----------------------------- *)

Chapters == {k \in 1..Len(ctx.book) : ctx.book[k].kind = "Chapter"}

Excluded == {k \in Chapters : ctx.book[k].name \in cfg.ignores}

ImageEvents(k) ==
  {n \in 1..Len(ctx.book[k].events) : IsImageEvent(ctx.book[k].events[n])}

CopiesOf(k) == {n \in 1..Len(fs.copies) : fs.copies[n].item = k}

\* Two events that differ at most in their path.
SameButPath(a, b) ==
  /\ a.ev = b.ev /\ a.tag = b.tag /\ a.link_type = b.link_type
  /\ a.title = b.title /\ a.text = b.text

\* C1: the events traverse_markdown's map has yielded are as many as it has
\* read; a yielded event that is no image is the event read, an image
\* start or end is the same variant with the same link type and title;
\* a chapter without images is yielded as it is and copies no file.
C1_EventsPreserved ==
  pc = "traverse" =>
    LET events == CurItem.events
    IN /\ Len(rewritten) = ev_idx - 1
       /\ Len(rewritten) <= Len(events)
       /\ \A n \in 1..Len(rewritten) :
            IF IsImageEvent(events[n])
            THEN SameButPath(rewritten[n], events[n])
            ELSE rewritten[n] = events[n]
       /\ ImageEvents(item) = {} =>
            /\ CopiesOf(item) = {}
            /\ rewritten = SubSeq(events, 1, ev_idx - 1)

\* A chapter with text, a link and an image has been mapped to its end, and
\* the image's path was replaced.
C1_Witness ==
  /\ pc = "traverse" /\ ev_idx > Len(CurItem.events)
  /\ \E n \in ImageEvents(item) : rewritten[n].path # CurItem.events[n].path
  /\ \E n \in 1..Len(rewritten) : rewritten[n].ev = "Text"

\* The leading "./" segments of a reference taken off.
RECURSIVE StripLeading(_)
StripLeading(ref) ==
  IF StartsWith(ref, <<".", "/">>)
  THEN StripLeading(SubSeq(ref, 3, Len(ref)))
  ELSE ref

\* a/b as the claim writes it.
Under(base, p) ==
  IF base = <<>> \/ base[Len(base)] = "/" THEN base \o p
  ELSE base \o <<"/">> \o p

RawRef(c) == ctx.book[c.item].events[c.ev].path

\* C2: for a raw reference r in a chapter of directory d, with r' = r less
\* its leading "./" segments, the file is read from <root>/<src>/d/r',
\* copied to <destination>/images/d/r', and the event gets images/d/r'.
C2_PathsAsSpecified ==
  /\ \A n \in 1..Len(fs.copies) :
       LET c == fs.copies[n]
           d == ctx.book[c.item].dir
           r == StripLeading(RawRef(c))
       IN /\ c.src = Under(Under(Under(BookRoot, BookSrc), d), r)
          /\ c.dst = Under(Under(Under(Destination, <<"images">>), d), r)
  /\ pc = "traverse" =>
       \A n \in 1..Len(rewritten) :
         IsImageEvent(rewritten[n]) =>
           rewritten[n].path =
             Under(Under(<<"images">>, CurItem.dir),
                   StripLeading(CurItem.events[n].path))

\* C3: every path put into an image event begins with images/, and every
\* copy goes to a file under <destination>/images/.
C3_UnderImages ==
  /\ \A n \in 1..Len(fs.copies) :
       StartsWith(fs.copies[n].dst, Destination \o <<"/", "images", "/">>)
  /\ pc = "traverse" =>
       \A n \in 1..Len(rewritten) :
         IsImageEvent(rewritten[n]) =>
           StartsWith(rewritten[n].path, <<"images", "/">>)

\* The file a chapter's image event is read from.
Referenced(k) ==
  {SourceImage(ctx.book[k].dir, ctx.book[k].events[n].path) :
     n \in ImageEvents(k)}

\* C4: a chapter whose name is in ignores is never given to
\* traverse_markdown, no directory is made and no file copied for it, a
\* file is copied only if a chapter that is not excluded refers to it, and
\* a book of excluded chapters only has an empty body.
C4_IgnoredUntouched ==
  /\ \A n \in 1..Len(traversed) : traversed[n] \notin Excluded
  /\ \A n \in 1..Len(fs.copies) :
       /\ fs.copies[n].item \in Chapters \ Excluded
       /\ \E k \in Chapters \ Excluded : fs.copies[n].src \in Referenced(k)
  /\ \A d \in fs.dirs : d.item \in Chapters \ Excluded
  /\ Chapters \subseteq Excluded =>
       content = <<>> /\ fs.copies = <<>> /\ fs.dirs = {}

\* The loop is over a book with an excluded chapter that holds an image,
\* and another chapter's image was copied.
C4_Witness ==
  /\ pc = "markdown"
  /\ \E k \in Excluded : ImageEvents(k) # {}
  /\ fs.copies # <<>>

\* The markdown a chapter is written back as.
RECURSIVE MapAll(_, _)
MapAll(events, dir) ==
  IF events = <<>> THEN <<>>
  ELSE <<MapEvent(Head(events), dir)>> \o MapAll(Tail(events), dir)

RECURSIVE BodyFrom(_)
BodyFrom(k) ==
  IF k > Len(ctx.book) THEN <<>>
  ELSE (IF k \in Chapters \ Excluded
        THEN Cmark(MapAll(ctx.book[k].events, ctx.book[k].dir))
        ELSE <<>>) \o BodyFrom(k + 1)

\* C5: after the loop content is the markdown of the chapters that are not
\* excluded, in the book's order, each once, with nothing between them and
\* nothing for the other items.
C5_BodyIsConcatenation ==
  pc \notin {"load", "subst", "iter", "traverse"} => content = BodyFrom(1)

\* The loop is over a book of two different chapters, both taken.
C5_Witness ==
  /\ pc = "markdown"
  /\ Len(traversed) = 2
  /\ ctx.book[1] # ctx.book[2]
  /\ content # <<>>

\* How often a text occurs in another.
RECURSIVE Count(_, _)
Count(t, pat) ==
  IF Len(t) < Len(pat) THEN 0
  ELSE (IF StartsWith(t, pat) THEN 1 ELSE 0) + Count(Tail(t), pat)

\* The template with each placeholder filled in where the template has it.
RECURSIVE Filled(_)
Filled(t) ==
  IF t = <<>> THEN <<>>
  ELSE IF StartsWith(t, TitlePlaceholder)
       THEN <<"\\title{">> \o Title \o <<"}">> \o Filled(SubSeq(t, 3, Len(t)))
  ELSE IF StartsWith(t, AuthorPlaceholder)
       THEN <<"\\author{">> \o Authors \o <<"}">>
            \o Filled(SubSeq(t, 3, Len(t)))
  ELSE IF StartsWith(t, DatePlaceholder)
       THEN <<"\\date{">> \o DateOrDefault(ctx.date) \o <<"}">>
            \o Filled(SubSeq(t, 3, Len(t)))
  ELSE <<Head(t)>> \o Filled(Tail(t))

\* C6: a template with each placeholder once is, after the three
\* substitutions, that template with the title, the authors joined by
\* " \and " and the date (or \today) in their placeholders and nothing else
\* changed, whatever the three values are.
C6_PlaceholdersFilled ==
  ( /\ pc \in {"iter", "traverse", "markdown", "convert"}
    /\ Count(tpl, TitlePlaceholder) = 1
    /\ Count(tpl, AuthorPlaceholder) = 1
    /\ Count(tpl, DatePlaceholder) = 1 )
  => template = Filled(tpl)

\* The insertion has happened.
HasInsertion ==
  \/ pc \in {"latex", "which", "spawn", "write", "wait"}
  \/ pc = "done" /\ (cfg.latex \/ cfg.pdf)

\* C7: with LaTeX or PDF asked for, the final template of a run whose
\* template holds the marker is the substituted template with the LaTeX
\* text right after the template's first marker and nothing else moved,
\* whatever the title, authors and date are; with neither asked for, it
\* is the substituted template.
C7_InsertedAfterMarker ==
  LET pos == Find(tpl, Begin) + Len(Begin)
  IN /\ (HasInsertion /\ Find(tpl, Begin) >= 0) =>
          template = Substituted(SubSeq(tpl, 1, pos)) \o latex
                     \o Substituted(SubSeq(tpl, pos + 1, Len(tpl)))
     /\ (pc = "done" /\ ~(cfg.latex \/ cfg.pdf)) =>
          template = Substituted(tpl)

CompilerFailed ==
  \/ child.located = "no"
  \/ child.waited /\ (child.status.signalled \/ child.status.code # 0)

\* C8: with PDF asked for, a run that ends ok found the compiler, started
\* it and saw it exit with code 0; a run whose compiler was not found, or
\* ended with another status, ends in an error.
C8_SuccessNeedsExitZero ==
  /\ (cfg.pdf /\ outcome = "ok") =>
       /\ child.located = "yes" /\ child.spawned /\ child.waited
       /\ ~child.status.signalled /\ child.status.code = 0
  /\ CompilerFailed => outcome \in {"err", "panic"}

\* The compiler exited with a code other than 0 and the run panicked.
C8_Witness ==
  /\ child.waited /\ ~child.status.signalled /\ child.status.code # 0
  /\ outcome = "panic"

\* C9: once the write to the compiler's input has returned without an
\* error, the compiler has been given the whole template, and its input is
\* closed by the time its exit status is known.
C9_WholeTemplateSent ==
  /\ pc \in {"wait", "done"} /\ child.spawned => child.stdin = template
  /\ child.waited => child.stdin_closed

Produced ==
  \/ fs.md.state # "absent" \/ fs.tex.state # "absent"
  \/ child.located # "unknown"

\* C10: a failed create_dir_all or copy ends the run in a panic at that
\* event, with no markdown file, no LaTeX file and no compiler; and an
\* output exists only when the loop over the book is over.
C10_RelocationBeforeOutput ==
  /\ fs.failed => outcome = "panic" /\ pc = "traverse" /\ ~Produced
  /\ Produced => pc \notin {"load", "subst", "iter", "traverse"}
                 /\ item > Len(ctx.book)

\* A copy failed after an earlier image had been copied, in a run that was
\* to write all three outputs.
C10_Witness ==
  /\ fs.failed /\ fs.copies # <<>>
  /\ cfg.markdown /\ cfg.latex /\ cfg.pdf

====
